---- MODULE Spec2Model ----
(***************************************************************************)
(* Model of the assistant bot of src/main.py: the validated fields (Phone, *)
(* Birthday), Record, AddressBook (with get_upcoming_birthdays), the       *)
(* input_error decorator, the command handlers and the loop of main().     *)
(*                                                                         *)
(* Text is modelled as a sequence of pieces.  A token typed by the user is *)
(* a sequence of one-character strings; a message is a sequence of pieces  *)
(* whose concatenation is the Python string.  An input line is the         *)
(* sequence of its whitespace-separated tokens (what str.split() yields).  *)
(* A date is a record [year, month, day].  A Python optional value is a    *)
(* sequence of length 0 (None) or 1.                                       *)
(***************************************************************************)
EXTENDS Integers, Sequences, FiniteSets, TLC

VARIABLES
    book,        \* AddressBook.data: insertion-ordered sequence of [key, rec]
    pc,          \* main(): "loop", "exited", "crashed" (an exception left a
                 \* command), "save_failed" (repo.save raised)
    user_input,  \* the line read by the current iteration (its tokens)
    out,         \* the strings printed by the current iteration
    escaped,     \* the type of the exception that left main() ("" if none)
    call,        \* the AddressBook method called directly in this step
    today,       \* the date read by get_upcoming_birthdays in this step
    upcoming,    \* outcome of get_upcoming_birthdays in this step
    saveCalls,   \* number of calls of repo.save
    saved        \* the book handed to repo.save

vars == <<book, pc, user_input, out, escaped, call, today, upcoming,
          saveCalls, saved>>

\* Bound of the model: the total number of phones held by the book.
MaxPhones == 2

-----------------------------------------------------------------------------
(* Characters and tokens *)

Digits == <<"0", "1", "2", "3", "4", "5", "6", "7", "8", "9">>

IsDigitChar(c) == \E i \in 1..10 : Digits[i] = c

DigitVal(c) == (CHOOSE i \in 1..10 : Digits[i] = c) - 1

DigitChar(n) == Digits[n + 1]

\* str.isdigit(): non-empty and every character a digit
isdigit(s) == Len(s) > 0 /\ \A i \in 1..Len(s) : IsDigitChar(s[i])

RECURSIVE NumVal(_)
NumVal(s) == IF s = <<>> THEN 0
             ELSE 10 * NumVal(SubSeq(s, 1, Len(s) - 1)) + DigitVal(s[Len(s)])

LowerChar(c) ==
    CASE c = "A" -> "a" [] c = "D" -> "d" [] c = "E" -> "e"
      [] c = "I" -> "i" [] c = "T" -> "t" [] c = "X" -> "x"
      [] OTHER -> c

\* str.lower()
lower(s) == [i \in 1..Len(s) |-> LowerChar(s[i])]

None == <<>>
Some(v) == <<v>>

-----------------------------------------------------------------------------
(* Calendar: datetime.date *)

IsLeap(y) == y % 4 = 0 /\ (y % 100 # 0 \/ y % 400 = 0)

DaysInMonth(y, m) ==
    IF m = 2 THEN (IF IsLeap(y) THEN 29 ELSE 28)
    ELSE IF m \in {4, 6, 9, 11} THEN 30 ELSE 31

DaysBeforeYear(y) ==
    (y - 1) * 365 + (y - 1) \div 4 - (y - 1) \div 100 + (y - 1) \div 400

RECURSIVE DaysBeforeMonth(_, _)
DaysBeforeMonth(y, m) ==
    IF m = 1 THEN 0 ELSE DaysBeforeMonth(y, m - 1) + DaysInMonth(y, m - 1)

\* date.toordinal(): 01.01.0001 is day 1
ToOrdinal(d) == DaysBeforeYear(d.year) + DaysBeforeMonth(d.year, d.month) + d.day

\* date.weekday(): Monday is 0, Sunday is 6
Weekday(d) == (ToOrdinal(d) + 6) % 7

IsDate(y, m, d) ==
    /\ y >= 1 /\ y <= 9999
    /\ m >= 1 /\ m <= 12
    /\ d >= 1 /\ d <= DaysInMonth(y, m)

MkDate(y, m, d) == [year |-> y, month |-> m, day |-> d]

NextDay(d) ==
    IF d.day < DaysInMonth(d.year, d.month) THEN MkDate(d.year, d.month, d.day + 1)
    ELSE IF d.month < 12 THEN MkDate(d.year, d.month + 1, 1)
    ELSE MkDate(d.year + 1, 1, 1)

\* date + timedelta(days=n), n >= 0
RECURSIVE AddDays(_, _)
AddDays(d, n) == IF n = 0 THEN d ELSE AddDays(NextDay(d), n - 1)

\* date.replace(year=y): ValueError when the day does not exist in year y
Replace(d, y) ==
    IF IsDate(y, d.month, d.day)
    THEN [raised |-> FALSE, date |-> MkDate(y, d.month, d.day)]
    ELSE [raised |-> TRUE, date |-> d]

DateLess(a, b) == ToOrdinal(a) < ToOrdinal(b)

\* datetime.strptime(value, "%d.%m.%Y"): day of one or two digits (1..31),
\* month of one or two digits (1..12), year of exactly four digits, the
\* whole text consumed, and the three numbers a date of the calendar.
Dots(s) == {i \in 1..Len(s) : s[i] = "."}

DayOrMonthText(p, max) ==
    /\ Len(p) \in {1, 2}
    /\ isdigit(p)
    /\ NumVal(p) >= 1 /\ NumVal(p) <= max

strptime(value) ==
    IF Cardinality(Dots(value)) # 2
    THEN [raised |-> TRUE, date |-> MkDate(1, 1, 1)]
    ELSE LET i1 == CHOOSE i \in Dots(value) : \A j \in Dots(value) : i <= j
             i2 == CHOOSE i \in Dots(value) : \A j \in Dots(value) : j <= i
             dd == SubSeq(value, 1, i1 - 1)
             mm == SubSeq(value, i1 + 1, i2 - 1)
             yy == SubSeq(value, i2 + 1, Len(value))
         IN  IF /\ DayOrMonthText(dd, 31)
                /\ DayOrMonthText(mm, 12)
                /\ Len(yy) = 4 /\ isdigit(yy)
                /\ IsDate(NumVal(yy), NumVal(mm), NumVal(dd))
             THEN [raised |-> FALSE,
                   date |-> MkDate(NumVal(yy), NumVal(mm), NumVal(dd))]
             ELSE [raised |-> TRUE, date |-> MkDate(1, 1, 1)]

Pad2(n) == <<DigitChar(n \div 10), DigitChar(n % 10)>>

Pad4(n) == <<DigitChar(n \div 1000), DigitChar((n \div 100) % 10),
             DigitChar((n \div 10) % 10), DigitChar(n % 10)>>

\* date.strftime("%d.%m.%Y")
strftime(d) == Pad2(d.day) \o <<".">> \o Pad2(d.month) \o <<".">> \o Pad4(d.year)

-----------------------------------------------------------------------------
(* Messages *)

MsgPhoneFormat == <<"Phone number must be exactly 10 digits and contain only numbers.">>
MsgDateFormat == <<"Invalid date format. Use DD.MM.YYYY">>
MsgPhoneUpdated == <<"Phone number updated.">>
MsgPhoneNotFound == <<"Phone number not found.">>
MsgNeedNameAndPhone == <<"Please provide both name and phone number.">>
MsgNeedPhone == <<"Please provide a phone number.">>
MsgNeedChangeArgs == <<"Please provide name, old phone, and new phone.">>
MsgNeedName == <<"Please provide a contact name.">>
MsgNeedNameAndBirthday == <<"Please provide name and birthday (DD.MM.YYYY).">>
MsgContactNotFound == <<"Contact not found.">>
MsgContactAdded == <<"Contact added.">>
MsgContactUpdated == <<"Contact updated.">>
MsgNoContacts == <<"No contacts found.">>
MsgNoUpcoming == <<"No upcoming birthdays in the next week.">>
MsgGoodBye == <<"Good bye!">>
MsgHello == <<"How can I help you?">>
MsgInvalidCommand == <<"Invalid command.">>
\* the interpreter's texts of the ValueErrors of tuple unpacking and of date.replace
MsgTooManyValues == <<"too many values to unpack (expected 3)">>
MsgNotEnoughValues == <<"not enough values to unpack">>
MsgDayOutOfRange == <<"day is out of range for month">>

\* sep.join(texts)
RECURSIVE Join(_, _)
Join(texts, sep) ==
    IF texts = <<>> THEN <<>>
    ELSE IF Len(texts) = 1 THEN texts[1]
    ELSE texts[1] \o sep \o Join(Tail(texts), sep)

-----------------------------------------------------------------------------
(* Fields and Record *)

\* Phone.__init__
Phone(value) ==
    IF ~isdigit(value) \/ Len(value) # 10
    THEN [raised |-> TRUE, value |-> value]
    ELSE [raised |-> FALSE, value |-> value]

\* Birthday.__init__
Birthday(value) ==
    LET p == strptime(value)
    IN  [raised |-> p.raised, value |-> value, date |-> p.date]

\* Record.__init__
Record(name) == [name |-> name, phones |-> <<>>, birthday |-> None]

\* Record.add_phone: [exc, rec]
Record_add_phone(rec, phone) ==
    IF Phone(phone).raised
    THEN [exc |-> "ValueError", val |-> MsgPhoneFormat, rec |-> rec]
    ELSE [exc |-> "", val |-> <<>>,
          rec |-> [rec EXCEPT !.phones = Append(@, Phone(phone).value)]]

\* the loop of Record.edit_phone from position key on
RECURSIVE EditPhoneFrom(_, _, _, _)
EditPhoneFrom(rec, key, old_phone, new_phone) ==
    IF key > Len(rec.phones)
    THEN [val |-> MsgPhoneNotFound, rec |-> rec]
    ELSE IF rec.phones[key] = old_phone
    THEN IF Phone(new_phone).raised
         THEN [val |-> MsgPhoneFormat, rec |-> rec]
         ELSE [val |-> MsgPhoneUpdated,
               rec |-> [rec EXCEPT !.phones[key] = Phone(new_phone).value]]
    ELSE EditPhoneFrom(rec, key + 1, old_phone, new_phone)

\* edit_phone that goes on after the first match
RECURSIVE EditAllFrom(_, _, _, _)
EditAllFrom(rec, key, old_phone, new_phone) ==
    IF key > Len(rec.phones) THEN rec
    ELSE IF rec.phones[key] = old_phone /\ ~Phone(new_phone).raised
    THEN EditAllFrom([rec EXCEPT !.phones[key] = Phone(new_phone).value],
                     key + 1, old_phone, new_phone)
    ELSE EditAllFrom(rec, key + 1, old_phone, new_phone)

Record_edit_phone_all(rec, old_phone, new_phone) ==
    [val |-> EditPhoneFrom(rec, 1, old_phone, new_phone).val,
     rec |-> EditAllFrom(rec, 1, old_phone, new_phone)]

\* Record.edit_phone
Record_edit_phone(rec, old_phone, new_phone) ==
    EditPhoneFrom(rec, 1, old_phone, new_phone)

\* Record.add_birthday
Record_add_birthday(rec, birthday) ==
    IF Birthday(birthday).raised
    THEN [exc |-> "ValueError", val |-> MsgDateFormat, rec |-> rec]
    ELSE [exc |-> "", val |-> <<>>,
          rec |-> [rec EXCEPT !.birthday =
                      Some([value |-> Birthday(birthday).value,
                            date |-> Birthday(birthday).date])]]

\* Record.__str__
Record_str(rec) ==
    <<"Contact name: ">> \o rec.name \o <<", phones: ">>
        \o Join(rec.phones, <<"; ">>)
        \o (IF rec.birthday # None
            THEN <<", birthday: ">> \o rec.birthday[1].value ELSE <<>>)

-----------------------------------------------------------------------------
(* AddressBook: data is a sequence of [key, rec] in insertion order *)

Keys(b) == {b[i].key : i \in 1..Len(b)}

IndexOf(b, name) == CHOOSE i \in 1..Len(b) : b[i].key = name

\* add_record that never replaces
add_record_append(b, record) == Append(b, [key |-> record.name, rec |-> record])

\* AddressBook.add_record: self.data[record.name.value] = record
add_record(b, record) ==
    IF record.name \in Keys(b)
    THEN [b EXCEPT ![IndexOf(b, record.name)].rec = record]
    ELSE Append(b, [key |-> record.name, rec |-> record])

\* del self.data[name]: KeyError when the key is absent
DelItem(b, name) ==
    IF name \in Keys(b)
    THEN [exc |-> "",
          book |-> SubSeq(b, 1, IndexOf(b, name) - 1)
                      \o SubSeq(b, IndexOf(b, name) + 1, Len(b))]
    ELSE [exc |-> "KeyError", book |-> b]

\* AddressBook.delete
delete(b, name) ==
    IF name \in Keys(b) THEN DelItem(b, name) ELSE [exc |-> "", book |-> b]

\* AddressBook.find: the record under the key, or None
find(b, name) ==
    IF name \in Keys(b) THEN Some(b[IndexOf(b, name)].rec) ELSE None

\* a mutation of the record object found under key name
Mutate(b, name, rec) == [b EXCEPT ![IndexOf(b, name)].rec = rec]

\* the test of the week's window: 0 <= days_until_birthday <= 7
InWindowExclusive(days_until_birthday) ==
    0 <= days_until_birthday /\ days_until_birthday < 7

InWindow(days_until_birthday) ==
    0 <= days_until_birthday /\ days_until_birthday <= 7

\* the congratulation date of a birthday that falls on birthday_this_year
ShiftSaturdayOnly(birthday_this_year) ==
    IF Weekday(birthday_this_year) = 5
    THEN AddDays(birthday_this_year, 2)
    ELSE birthday_this_year

CongratulationDate(birthday_this_year) ==
    IF Weekday(birthday_this_year) = 5
    THEN AddDays(birthday_this_year, 2)
    ELSE IF Weekday(birthday_this_year) = 6
    THEN AddDays(birthday_this_year, 1)
    ELSE birthday_this_year

\* the loop of get_upcoming_birthdays from record i on, with the list so far
RECURSIVE UpcomingFrom(_, _, _, _)
UpcomingFrom(b, now, i, upcoming_birthdays) ==
    IF i > Len(b) THEN [raised |-> FALSE, list |-> upcoming_birthdays]
    ELSE IF b[i].rec.birthday = None
    THEN UpcomingFrom(b, now, i + 1, upcoming_birthdays)
    ELSE
      LET birthday_date == b[i].rec.birthday[1].date
          this == Replace(birthday_date, now.year)
          passed == ~this.raised /\ DateLess(this.date, now)
          next == Replace(birthday_date, now.year + 1)
      IN  IF this.raised \/ (passed /\ next.raised)
          THEN [raised |-> TRUE, list |-> <<>>]
          ELSE
            LET birthday_this_year == IF passed THEN next.date ELSE this.date
                days_until_birthday == ToOrdinal(birthday_this_year) - ToOrdinal(now)
            IN  IF InWindow(days_until_birthday)
                THEN UpcomingFrom(b, now, i + 1,
                        Append(upcoming_birthdays,
                               [name |-> b[i].rec.name,
                                congratulation_date |->
                                    strftime(CongratulationDate(birthday_this_year))]))
                ELSE UpcomingFrom(b, now, i + 1, upcoming_birthdays)

\* AddressBook.get_upcoming_birthdays, with today = now
get_upcoming_birthdays(b, now) == UpcomingFrom(b, now, 1, <<>>)

-----------------------------------------------------------------------------
(* Command handlers.  A handler yields [exc, val, book, ub]: exc is "" on  *)
(* return and the exception's type when it raises, val the returned text   *)
(* or the exception's text, book the address book as the handler left it,  *)
(* ub the outcome of its call of get_upcoming_birthdays (None if none).    *)

Return(val, b) == [exc |-> "", val |-> val, book |-> b, ub |-> None]
Raise(exc, val, b) == [exc |-> exc, val |-> val, book |-> b, ub |-> None]

add_contact(args, b) ==
    IF Len(args) < 2 THEN Raise("ValueError", MsgNotEnoughValues, b)
    ELSE
      LET name == args[1]
          phone == args[2]
          found == find(b, name)
          record == IF found = None THEN Record(name) ELSE found[1]
          b1 == IF found = None THEN add_record(b, record) ELSE b
          message == IF found = None THEN MsgContactAdded ELSE MsgContactUpdated
          added == Record_add_phone(record, phone)
      IN  IF phone # <<>>
          THEN IF added.exc # "" THEN Raise(added.exc, added.val, b1)
               ELSE Return(message, Mutate(b1, name, added.rec))
          ELSE Return(message, b1)

change_contact(args, b) ==
    IF Len(args) > 3 THEN Raise("ValueError", MsgTooManyValues, b)
    ELSE IF Len(args) < 3 THEN Raise("ValueError", MsgNotEnoughValues, b)
    ELSE
      LET name == args[1]
          record == find(b, name)
          result == Record_edit_phone(record[1], args[2], args[3])
      IN  IF record # None
          THEN Return(result.val, Mutate(b, name, result.rec))
          ELSE Return(MsgContactNotFound, b)

show_phone(args, b) ==
    IF Len(args) = 0 THEN Raise("IndexError", <<"list index out of range">>, b)
    ELSE
      LET name == args[1]
          record == find(b, name)
      IN  IF record # None
          THEN Return(name \o <<": ">> \o Join(record[1].phones, <<"; ">>), b)
          ELSE Return(MsgContactNotFound, b)

RECURSIVE StrAll(_)
StrAll(b) == IF b = <<>> THEN <<>> ELSE <<Record_str(b[1].rec)>> \o StrAll(Tail(b))

show_all(b) ==
    IF b = <<>> THEN MsgNoContacts ELSE Join(StrAll(b), <<"\n">>)

add_birthday(args, b) ==
    IF Len(args) < 2 THEN Return(MsgNeedNameAndBirthday, b)
    ELSE
      LET name == args[1]
          birthday == args[2]
          record == find(b, name)
          set == Record_add_birthday(record[1], birthday)
      IN  IF record # None
          THEN IF set.exc # "" THEN Raise(set.exc, set.val, b)
               ELSE Return(<<"Birthday added for ">> \o name \o <<".">>,
                           Mutate(b, name, set.rec))
          ELSE Return(MsgContactNotFound, b)

show_birthday(args, b) ==
    IF Len(args) < 1 THEN Return(MsgNeedName, b)
    ELSE
      LET name == args[1]
          record == find(b, name)
      IN  IF record # None /\ record[1].birthday # None
          THEN Return(name \o <<"'s birthday: ">> \o record[1].birthday[1].value, b)
          ELSE IF record # None
          THEN Return(name \o <<" has no birthday set.">>, b)
          ELSE Return(MsgContactNotFound, b)

RECURSIVE Congratulations(_)
Congratulations(list) ==
    IF list = <<>> THEN <<>>
    ELSE <<(<<"Congratulate ">> \o list[1].name \o <<" on ">>
                \o list[1].congratulation_date)>>
         \o Congratulations(Tail(list))

birthdays(args, b, now) ==
    LET got == get_upcoming_birthdays(b, now)
    IN  IF got.raised
        THEN [exc |-> "ValueError", val |-> MsgDayOutOfRange, book |-> b,
              ub |-> Some(got)]
        ELSE [exc |-> "",
              val |-> IF got.list # <<>>
                      THEN Join(Congratulations(got.list), <<"\n">>)
                      ELSE MsgNoUpcoming,
              book |-> b, ub |-> Some(got)]

\* func(args, book) for the decorated function named func
Handler(func, args, b, now) ==
    CASE func = "add_contact" -> add_contact(args, b)
      [] func = "change_contact" -> change_contact(args, b)
      [] func = "show_phone" -> show_phone(args, b)
      [] func = "add_birthday" -> add_birthday(args, b)
      [] func = "show_birthday" -> show_birthday(args, b)
      [] func = "birthdays" -> birthdays(args, b, now)

\* except clauses that let a ValueError pass
CaughtKeyErrorOnly(r) ==
    IF r.exc = "KeyError" THEN [r EXCEPT !.exc = "", !.val = MsgContactNotFound]
    ELSE r

\* the except clauses of input_error.inner, applied to the handler's outcome r
Caught(r) ==
    IF r.exc = "" THEN r
    ELSE IF r.exc = "ValueError" THEN [r EXCEPT !.exc = ""]
    ELSE IF r.exc = "KeyError" THEN [r EXCEPT !.exc = "", !.val = MsgContactNotFound]
    ELSE [r EXCEPT !.exc = "", !.val = <<"Unexpected error: ">> \o r.val]

\* input_error(func)(args, book).  main() always passes a list, so the test
\* "args is None" is never true.
input_error(func, args, b, now) ==
    IF func = "add_contact" /\ Len(args) = 0 THEN Return(MsgNeedNameAndPhone, b)
    ELSE IF func = "add_contact" /\ Len(args) = 1 THEN Return(MsgNeedPhone, b)
    ELSE IF func = "change_contact" /\ Len(args) < 3 THEN Return(MsgNeedChangeArgs, b)
    ELSE IF func \in {"show_phone", "add_birthday"} /\ Len(args) = 0
    THEN Return(MsgNeedName, b)
    ELSE Caught(Handler(func, args, b, now))

\* parse_input: the tuple it returns
parse_input(line) ==
    IF line = <<>> THEN <<None, <<>>>>
    ELSE <<lower(Head(line))>> \o Tail(line)

\* command, *args = parse_input(user_input)
CommandOf(line) == Head(parse_input(line))
ArgsOf(line) == Tail(parse_input(line))

-----------------------------------------------------------------------------
(* Tokens of the input lines *)

T_add == <<"a", "d", "d">>
T_change == <<"c", "h", "a", "n", "g", "e">>
T_phone == <<"p", "h", "o", "n", "e">>
T_all == <<"a", "l", "l">>
T_add_birthday == <<"a", "d", "d", "-", "b", "i", "r", "t", "h", "d", "a", "y">>
T_show_birthday == <<"s", "h", "o", "w", "-", "b", "i", "r", "t", "h", "d", "a", "y">>
T_birthdays == <<"b", "i", "r", "t", "h", "d", "a", "y", "s">>
T_hello == <<"h", "e", "l", "l", "o">>
T_close == <<"c", "l", "o", "s", "e">>
T_exit == <<"e", "x", "i", "t">>

UpperExit == <<"E", "X", "I", "T">>
UpperAdd == <<"A", "D", "D">>
Unknown == <<"f", "o", "o">>
Extra == <<"x">>

Ann == <<"A", "n", "n">>
Bob == <<"B", "o", "b">>
Names == {Ann, Bob}

Phone1 == <<"1", "1", "1", "1", "1", "1", "1", "1", "1", "1">>
Phone2 == <<"2", "2", "2", "2", "2", "2", "2", "2", "2", "2">>
PhoneShort == <<"1", "2", "3">>
PhoneAlpha == <<"1", "1", "1", "1", "1", "1", "1", "1", "1", "x">>
GoodPhones == {Phone1, Phone2}
PhoneTokens == {Phone1, Phone2, PhoneShort, PhoneAlpha}

Bd1506 == <<"1", "5", ".", "0", "6", ".", "1", "9", "9", "0">>
Bd0101 == <<"0", "1", ".", "0", "1", ".", "2", "0", "0", "0">>
Bd2902 == <<"2", "9", ".", "0", "2", ".", "2", "0", "0", "0">>
Bd1606 == <<"1", "6", ".", "0", "6", ".", "2", "0", "0", "1">>
Bd3104 == <<"3", "1", ".", "0", "4", ".", "2", "0", "2", "4">>
BdDashes == <<"1", "5", "-", "0", "6", "-", "1", "9", "9", "0">>

\* the dates the clock shows when get_upcoming_birthdays reads it
Todays ==
    {MkDate(2024, 2, 25), MkDate(2024, 3, 1),
     MkDate(2024, 6, 7), MkDate(2024, 6, 8), MkDate(2024, 6, 10),
     MkDate(2024, 6, 15), MkDate(2024, 6, 16),
     MkDate(2024, 12, 24), MkDate(2024, 12, 25), MkDate(2024, 12, 28),
     MkDate(2025, 6, 9), MkDate(2026, 6, 10)}

\* the dates the clock shows in the runs of the whole command loop
TodaysMain == {MkDate(2024, 6, 10), MkDate(2024, 6, 16)}

\* the lines typed in the runs of the whole command loop
Lines ==
    {<<>>, <<Unknown>>, <<T_hello>>, <<T_all>>, <<T_close>>, <<T_exit>>,
     <<UpperExit>>, <<UpperAdd>>, <<T_birthdays>>, <<T_birthdays, Extra>>}
    \cup {<<T_add>>, <<T_add, Ann>>}
    \cup {<<T_add, n, p>> : n \in Names, p \in PhoneTokens}
    \cup {<<T_add, Ann, p, Extra>> : p \in {Phone1, PhoneShort}}
    \cup {<<T_change>>, <<T_change, Ann, Phone1>>}
    \cup {<<T_change, n, o, w>> : n \in Names, o \in GoodPhones,
                                  w \in {Phone1, Phone2, PhoneShort}}
    \cup {<<T_change, Ann, Phone1, w, Extra>> : w \in {Phone2, PhoneShort}}
    \cup {<<T_phone>>, <<T_phone, Ann>>, <<T_phone, Bob>>, <<T_phone, Ann, Extra>>}
    \cup {<<T_add_birthday>>, <<T_add_birthday, Ann>>}
    \cup {<<T_add_birthday, n, d>> : n \in Names, d \in {Bd1506, Bd3104}}
    \cup {<<T_add_birthday, Ann, d, Extra>> : d \in {Bd1506, Bd3104}}
    \cup {<<T_show_birthday>>, <<T_show_birthday, Ann>>, <<T_show_birthday, Bob>>,
          <<T_show_birthday, Ann, Extra>>}

\* the lines typed in the runs about the birthday schedule
LinesBday ==
    {<<T_all>>, <<T_birthdays>>}
    \cup {<<T_add, n, Phone1>> : n \in Names}
    \cup {<<T_add_birthday, n, d>> :
            n \in Names, d \in {Bd1506, Bd1606, Bd0101, Bd2902, Bd3104, BdDashes}}
    \cup {<<T_show_birthday, n>> : n \in Names}

RECURSIVE TotalPhones(_)
TotalPhones(b) ==
    IF b = <<>> THEN 0 ELSE Len(b[1].rec.phones) + TotalPhones(Tail(b))

NoCall == [op |-> "", name |-> <<>>, rec |-> None]
NoClock == MkDate(1, 1, 1)

-----------------------------------------------------------------------------
(* The loop of main() *)

Init ==
    /\ book = <<>>
    /\ pc = "loop"
    /\ user_input = None
    /\ out = <<>>
    /\ escaped = ""
    /\ call = NoCall
    /\ today = None
    /\ upcoming = None
    /\ saveCalls = 0
    /\ saved = None

\* print(handler(args, book)), or the exception leaving main()
Respond(line, r, now) ==
    /\ user_input' = Some(line)
    /\ book' = r.book
    /\ IF r.exc = ""
       THEN out' = <<r.val>> /\ pc' = "loop" /\ escaped' = ""
       ELSE out' = <<>> /\ pc' = "crashed" /\ escaped' = r.exc
    /\ upcoming' = r.ub
    /\ today' = IF r.ub = None THEN None ELSE Some(now)
    /\ call' = NoCall
    /\ UNCHANGED <<saveCalls, saved>>

IsExit(command) == command \in {T_close, T_exit}

\* the exit branch without its break
ExitNoBreak(line) ==
    /\ pc = "loop"
    /\ IsExit(CommandOf(line))
    /\ user_input' = Some(line)
    /\ out' = <<MsgGoodBye>>
    /\ saveCalls' = saveCalls + 1
    /\ saved' = Some(book)
    /\ pc' = "loop" /\ escaped' = ""
    /\ call' = NoCall /\ today' = None /\ upcoming' = None
    /\ UNCHANGED book

\* close / exit: print, repo.save(book), break
Exit(line) ==
    /\ pc = "loop"
    /\ IsExit(CommandOf(line))
    /\ user_input' = Some(line)
    /\ out' = <<MsgGoodBye>>
    /\ saveCalls' = saveCalls + 1
    /\ saved' = Some(book)
    /\ \E stored \in BOOLEAN :
          /\ pc' = IF stored THEN "exited" ELSE "save_failed"
          /\ escaped' = IF stored THEN "" ELSE "OSError"
    /\ call' = NoCall /\ today' = None /\ upcoming' = None
    /\ UNCHANGED book

Hello(line) ==
    /\ pc = "loop"
    /\ ~IsExit(CommandOf(line))
    /\ CommandOf(line) = T_hello
    /\ Respond(line, Return(MsgHello, book), NoClock)

Add(line) ==
    /\ pc = "loop"
    /\ CommandOf(line) = T_add
    /\ Respond(line, input_error("add_contact", ArgsOf(line), book, NoClock), NoClock)
    /\ TotalPhones(book') <= MaxPhones

Change(line) ==
    /\ pc = "loop"
    /\ CommandOf(line) = T_change
    /\ Respond(line, input_error("change_contact", ArgsOf(line), book, NoClock), NoClock)

ShowPhone(line) ==
    /\ pc = "loop"
    /\ CommandOf(line) = T_phone
    /\ Respond(line, input_error("show_phone", ArgsOf(line), book, NoClock), NoClock)

ShowAll(line) ==
    /\ pc = "loop"
    /\ CommandOf(line) = T_all
    /\ Respond(line, Return(show_all(book), book), NoClock)

AddBirthday(line) ==
    /\ pc = "loop"
    /\ CommandOf(line) = T_add_birthday
    /\ Respond(line, input_error("add_birthday", ArgsOf(line), book, NoClock), NoClock)

ShowBirthday(line) ==
    /\ pc = "loop"
    /\ CommandOf(line) = T_show_birthday
    /\ Respond(line, input_error("show_birthday", ArgsOf(line), book, NoClock), NoClock)

Birthdays(line, now) ==
    /\ pc = "loop"
    /\ CommandOf(line) = T_birthdays
    /\ Respond(line, input_error("birthdays", ArgsOf(line), book, now), now)

Known == {T_close, T_exit, T_hello, T_add, T_change, T_phone, T_all,
          T_add_birthday, T_show_birthday, T_birthdays}

Invalid(line) ==
    /\ pc = "loop"
    /\ CommandOf(line) \notin Known
    /\ Respond(line, Return(MsgInvalidCommand, book), NoClock)

\* the lines of a set that main() dispatches to one branch
Branch(lines) ==
    [command \in Known |-> {line \in lines : CommandOf(line) = command}]
Other(lines) == {line \in lines : CommandOf(line) \notin Known}

Main == Branch(Lines)
MainOther == Other(Lines)

Next ==
    \/ \E line \in Main[T_close] \cup Main[T_exit] : Exit(line)
    \/ \E line \in Main[T_hello] : Hello(line)
    \/ \E line \in Main[T_add] : Add(line)
    \/ \E line \in Main[T_change] : Change(line)
    \/ \E line \in Main[T_phone] : ShowPhone(line)
    \/ \E line \in Main[T_all] : ShowAll(line)
    \/ \E line \in Main[T_add_birthday] : AddBirthday(line)
    \/ \E line \in Main[T_show_birthday] : ShowBirthday(line)
    \/ \E line \in Main[T_birthdays], now \in TodaysMain : Birthdays(line, now)
    \/ \E line \in MainOther : Invalid(line)

Spec == Init /\ [][Next]_vars

Bday == Branch(LinesBday)

NextBday ==
    \/ \E line \in Bday[T_add] : Add(line)
    \/ \E line \in Bday[T_all] : ShowAll(line)
    \/ \E line \in Bday[T_add_birthday] : AddBirthday(line)
    \/ \E line \in Bday[T_show_birthday] : ShowBirthday(line)
    \/ \E line \in Bday[T_birthdays], now \in Todays : Birthdays(line, now)

SpecBday == Init /\ [][NextBday]_vars

-----------------------------------------------------------------------------
(* Direct use of AddressBook.add_record and AddressBook.delete *)

ApiRecords ==
    {Record(n) : n \in Names}
    \cup {Record_add_phone(Record(n), Phone2).rec : n \in Names}
    \cup {Record_add_birthday(Record(n), Bd1506).rec : n \in Names}

LinesApi ==
    {<<T_add, n, p>> : n \in Names, p \in {Phone1, PhoneShort}}
    \cup {<<T_change, Ann, Phone1, Phone2>>}
    \cup {<<T_add_birthday, n, Bd1506>> : n \in Names}

ApiAddRecord(record) ==
    /\ pc = "loop"
    /\ book' = add_record(book, record)
    /\ TotalPhones(book') <= MaxPhones
    /\ call' = [op |-> "add_record", name |-> record.name, rec |-> Some(record)]
    /\ user_input' = None /\ out' = <<>> /\ escaped' = ""
    /\ today' = None /\ upcoming' = None
    /\ UNCHANGED <<pc, saveCalls, saved>>

ApiDelete(name) ==
    /\ pc = "loop"
    /\ book' = delete(book, name).book
    /\ escaped' = delete(book, name).exc
    /\ pc' = IF delete(book, name).exc = "" THEN "loop" ELSE "crashed"
    /\ call' = [op |-> "delete", name |-> name, rec |-> None]
    /\ user_input' = None /\ out' = <<>>
    /\ today' = None /\ upcoming' = None
    /\ UNCHANGED <<saveCalls, saved>>

NextApi ==
    \/ \E record \in ApiRecords : ApiAddRecord(record)
    \/ \E name \in Names : ApiDelete(name)
    \/ \E line \in LinesApi : Add(line)
    \/ \E line \in LinesApi : Change(line)
    \/ \E line \in LinesApi : AddBirthday(line)

SpecApi == Init /\ [][NextApi]_vars

-----------------------------------------------------------------------------
(* Properties *)

Read == user_input # None
Line == user_input[1]

\* the rule of a phone number: exactly 10 decimal digits
TenDigits(p) ==
    /\ Len(p) = 10
    /\ \A i \in 1..Len(p) :
          p[i] \in {"0", "1", "2", "3", "4", "5", "6", "7", "8", "9"}

\* the minimum number of arguments of a command
MinArgs(command) ==
    IF command = T_change THEN 3
    ELSE IF command \in {T_add, T_add_birthday} THEN 2
    ELSE IF command \in {T_phone, T_show_birthday} THEN 1
    ELSE 0

\* the message of a command given n arguments, fewer than its minimum
ArityMessage(command, n) ==
    IF command = T_add THEN (IF n = 0 THEN MsgNeedNameAndPhone ELSE MsgNeedPhone)
    ELSE IF command = T_change THEN MsgNeedChangeArgs
    ELSE IF command = T_add_birthday THEN MsgNeedNameAndBirthday
    ELSE MsgNeedName

\* C1: a command that fails on a phone's or a birthday's validation leaves
\* the address book as it was.
C1_InvalidFieldMutatesNothing ==
    [][(/\ Read'
        /\ CommandOf(Line') \in {T_add, T_change, T_add_birthday}
        /\ out' \in {<<MsgPhoneFormat>>, <<MsgDateFormat>>})
       => book' = book]_vars

\* C2: every line read ends with exactly one printed string and no exception
\* leaves a command; an unknown command token prints "Invalid command." and
\* leaves the book unchanged.
C2_OneStringNoEscape ==
    /\ [](Read => (Len(out) = 1 /\ pc # "crashed"))
    /\ [][(Read' /\ CommandOf(Line') \notin Known)
          => (out' = <<MsgInvalidCommand>> /\ book' = book)]_vars

\* C2's case: a ValueError raised in a handler came out as the printed string.
C2_Witness ==
    /\ Read
    /\ Line = <<T_change, Ann, Phone1, Phone2, Extra>>
    /\ out = <<MsgTooManyValues>>
    /\ pc = "loop"

\* C3: get_upcoming_birthdays completes and returns a list for every book
\* and every date.
C3_UpcomingCompletes == upcoming # None => ~upcoming[1].raised

LeapDay(rec) ==
    /\ rec.birthday # None
    /\ rec.birthday[1].date.month = 2
    /\ rec.birthday[1].date.day = 29

\* the occurrences of a birthday's month and day 0 to 7 days after now
Occurrences(date, now) ==
    {d \in {MkDate(y, date.month, date.day) : y \in {now.year, now.year + 1}} :
        /\ IsDate(d.year, d.month, d.day)
        /\ ToOrdinal(d) - ToOrdinal(now) \in 0..7}

Due(rec, now) ==
    rec.birthday # None /\ Occurrences(rec.birthday[1].date, now) # {}

RECURSIVE DueNames(_, _)
DueNames(b, now) ==
    IF b = <<>> THEN <<>>
    ELSE (IF Due(b[1].rec, now) THEN <<b[1].rec.name>> ELSE <<>>)
         \o DueNames(Tail(b), now)

EntryNames(list) == [i \in 1..Len(list) |-> list[i].name]

\* C4: a command given fewer arguments than its minimum leaves the book
\* unchanged and prints the command's message of the arity table.
C4_ArityMessages ==
    [][(Read' /\ Len(ArgsOf(Line')) < MinArgs(CommandOf(Line')))
       => (/\ book' = book
           /\ out' = <<ArityMessage(CommandOf(Line'), Len(ArgsOf(Line')))>>)]_vars

\* C5: when no birthday of the book is 29.02, the entries returned are, in
\* the book's insertion order and once each, the records whose birthday's
\* next occurrence lies 0 to 7 days after today.
C5_WeekWindow ==
    (upcoming # None /\ \A i \in 1..Len(book) : ~LeapDay(book[i].rec))
    => (/\ ~upcoming[1].raised
        /\ EntryNames(upcoming[1].list) = DueNames(book, today[1]))

\* C5's case: a birthday 7 days out is listed and one 8 days out is not.
C5_Witness ==
    /\ upcoming # None
    /\ today[1] = MkDate(2024, 6, 8)
    /\ Len(book) = 2
    /\ book[1].rec.birthday # None /\ book[1].rec.birthday[1].value = Bd1606
    /\ book[2].rec.birthday # None /\ book[2].rec.birthday[1].value = Bd1506
    /\ EntryNames(upcoming[1].list) = <<book[2].rec.name>>

ShiftOf(occurrence) ==
    IF Weekday(occurrence) = 5 THEN 2
    ELSE IF Weekday(occurrence) = 6 THEN 1 ELSE 0

\* C6: every congratulation date returned is a Monday-to-Friday date: the
\* birthday's occurrence, moved 2 days on from a Saturday and 1 day on from
\* a Sunday, hence 0 to 9 days after today.
C6_WeekdayCongratulation ==
    (upcoming # None /\ ~upcoming[1].raised)
    => \A i \in 1..Len(upcoming[1].list) :
          LET entry == upcoming[1].list[i]
              rec == find(book, entry.name)[1]
              given == strptime(entry.congratulation_date)
          IN  /\ ~given.raised
              /\ Weekday(given.date) \in 0..4
              /\ \E occ \in Occurrences(rec.birthday[1].date, today[1]) :
                    ToOrdinal(given.date) = ToOrdinal(occ) + ShiftOf(occ)
              /\ ToOrdinal(given.date) - ToOrdinal(today[1]) \in 0..9

\* C6's case: a Saturday birthday 7 days out is congratulated on the Monday
\* 9 days out.
C6_Witness ==
    /\ upcoming # None /\ ~upcoming[1].raised
    /\ today[1] = MkDate(2024, 6, 8)
    /\ \E i \in 1..Len(upcoming[1].list) :
          upcoming[1].list[i].congratulation_date = strftime(MkDate(2024, 6, 17))

FirstAt(phones, old) ==
    CHOOSE i \in 1..Len(phones) :
        phones[i] = old /\ \A j \in 1..(i - 1) : phones[j] # old

\* C7: change <name> <old> <new> on a contact of the book changes at most
\* the first position holding old, and only when new is a valid phone;
\* otherwise the phones stay and the validation or the not-found text is
\* the result, without an exception.
C7_EditPhoneFrame ==
    [][(/\ Read'
        /\ CommandOf(Line') = T_change
        /\ Len(ArgsOf(Line')) = 3
        /\ ArgsOf(Line')[1] \in Keys(book))
       => LET name == ArgsOf(Line')[1]
              old == ArgsOf(Line')[2]
              new == ArgsOf(Line')[3]
              k == IndexOf(book, name)
              phones == book[k].rec.phones
              occurs == \E i \in 1..Len(phones) : phones[i] = old
          IN  /\ pc' = "loop"
              /\ Len(book') = Len(book)
              /\ \A i \in 1..Len(book) : i # k => book'[i] = book[i]
              /\ book'[k].key = book[k].key
              /\ book'[k].rec.name = book[k].rec.name
              /\ book'[k].rec.birthday = book[k].rec.birthday
              /\ IF occurs /\ TenDigits(new)
                 THEN /\ book'[k].rec.phones =
                            [phones EXCEPT ![FirstAt(phones, old)] = new]
                      /\ out' = <<MsgPhoneUpdated>>
                 ELSE /\ book'[k].rec.phones = phones
                      /\ out' = IF occurs THEN <<MsgPhoneFormat>>
                                ELSE <<MsgPhoneNotFound>>]_vars

\* C7's case: of two equal phones the first was replaced, the second kept.
C7_Witness ==
    /\ Read
    /\ Line = <<T_change, Ann, Phone1, Phone2>>
    /\ out = <<MsgPhoneUpdated>>
    /\ find(book, Ann) # None
    /\ find(book, Ann)[1].phones = <<Phone2, Phone1>>

KeysMatch(b) ==
    /\ \A i \in 1..Len(b) : b[i].key = b[i].rec.name
    /\ \A i, j \in 1..Len(b) : i # j => b[i].key # b[j].key

\* C8: every key equals the name of its record and no name has two
\* records; add_record of a present name replaces its record; delete of an
\* absent name changes nothing and does not raise.
C8_KeysAreNames ==
    /\ []KeysMatch(book)
    /\ [][(call'.op = "add_record" /\ call'.name \in Keys(book))
          => (/\ Len(book') = Len(book)
              /\ find(book', call'.name) = call'.rec
              /\ \A i \in 1..Len(book) :
                    book[i].key # call'.name => book'[i] = book[i])]_vars
    /\ [][(call'.op = "delete" /\ call'.name \notin Keys(book))
          => (book' = book /\ pc' = "loop" /\ escaped' = "")]_vars

\* C8's case: add_record of a name the book held replaced the record in place.
C8_Witness ==
    /\ call.op = "add_record"
    /\ Len(book) = 2
    /\ book[1].key = call.name
    /\ book[1].rec = call.rec[1]
    /\ book[1].rec.phones = <<>>
    /\ book[2].rec.phones # <<>>

\* C9: save is called at most once, only in the step that reads close or
\* exit, with the book left by the preceding commands; once it is called
\* nothing more is processed.
C9_SaveOnceOnExit ==
    /\ [](pc = "loop" => saveCalls = 0)
    /\ [](pc \in {"exited", "save_failed"}
            => (saveCalls = 1 /\ saved = Some(book) /\ IsExit(CommandOf(Line))))
    /\ [][saveCalls' # saveCalls
          => (/\ saveCalls' = saveCalls + 1
              /\ CommandOf(Line') \in {T_close, T_exit}
              /\ saved' = Some(book)
              /\ book' = book)]_vars
    /\ [][saveCalls > 0 => UNCHANGED vars]_vars

\* C9's case: the loop ended on an exit command with a non-empty book saved.
C9_Witness ==
    /\ pc = "exited"
    /\ saveCalls = 1
    /\ book # <<>>
    /\ saved = Some(book)
    /\ Line = <<UpperExit>>

\* what main() prints for a line and the book it leaves, by command
Outcome(line, b, now) ==
    LET command == CommandOf(line)
        args == ArgsOf(line)
    IN  IF command = T_add THEN input_error("add_contact", args, b, now)
        ELSE IF command = T_change THEN input_error("change_contact", args, b, now)
        ELSE IF command = T_phone THEN input_error("show_phone", args, b, now)
        ELSE IF command = T_add_birthday THEN input_error("add_birthday", args, b, now)
        ELSE IF command = T_show_birthday THEN input_error("show_birthday", args, b, now)
        ELSE IF command = T_birthdays THEN input_error("birthdays", args, b, now)
        ELSE IF command = T_all THEN Return(show_all(b), b)
        ELSE IF command = T_hello THEN Return(MsgHello, b)
        ELSE IF IsExit(command) THEN Return(MsgGoodBye, b)
        ELSE Return(MsgInvalidCommand, b)

Truncated(line) == SubSeq(line, 1, 1 + MinArgs(CommandOf(line)))

\* C10: a line with more arguments than its command's minimum has the
\* result and the resulting book of the line cut to the minimum.
C10_ArityIsMinimum ==
    [][(Read' /\ Line' # <<>> /\ Len(ArgsOf(Line')) > MinArgs(CommandOf(Line')))
       => LET now == IF today' = None THEN NoClock ELSE today'[1]
              cut == Outcome(Truncated(Line'), book, now)
          IN  out' = <<cut.val>> /\ book' = cut.book]_vars

====
